---- MODULE Spec2Model ----
(***************************************************************************)
(* A model of CompRep.py (AO Compare Tool): header detection, column       *)
(* renaming, unique-key discovery and the outer-join comparison of two     *)
(* spreadsheet exports.                                                    *)
(*                                                                         *)
(* Text is a sequence of one-character strings, so that strip(), lower(),  *)
(* startswith(), f-strings and " | ".join() are computed, not assumed.     *)
(* A cell value or a column label is a pair <<tag, text>>:                 *)
(*   <<"str", t>>  a Python str            <<"int", digits>>  a number     *)
(*   <<"nan", "nan">> a missing cell (NaN) <<"none", "None">> Python None  *)
(* A DataFrame is [cols |-> labels, rows |-> rows aligned to cols]; the     *)
(* dtype of a column is the one pandas infers from its cells.              *)
(*                                                                         *)
(* Left out: command-line parsing, file auto-detection, the hidden-sheet   *)
(* filter, maxline (max_lines = None), debug output, printing and export.  *)
(***************************************************************************)
EXTENDS Integers, Sequences, FiniteSets, TLC

VARIABLES pc, args, ret,
          files, user_keys, header_rows, df_base, df_compare, key_columns,
          merged, diff_rows, only_in_base, only_in_compare, error

vars == <<pc, args, ret, files, user_keys, header_rows, df_base, df_compare,
          key_columns, merged, diff_rows, only_in_base, only_in_compare, error>>

pipeline_vars == <<files, user_keys, header_rows, df_base, df_compare,
                   key_columns, merged, diff_rows, only_in_base,
                   only_in_compare, error>>

(***************************************************************************)
(* Bounds of the model.                                                    *)
(***************************************************************************)
MaxPreviewRows == 3
MaxCols == 3
MaxKeyRows == 4
MaxSheetRows == 1
MaxTotalRows == 3

(***************************************************************************)
(* Values and text.                                                        *)
(***************************************************************************)
Range(s) == {s[i] : i \in 1..Len(s)}

SeqsUpTo(S, n) == UNION {[1..k -> S] : k \in 0..n}

Str(t) == <<"str", t>>
Num(t) == <<"int", t>>
NaN == <<"nan", <<"n", "a", "n">>>>
None == <<"none", <<"N", "o", "n", "e">>>>

\* isinstance(x, str)
IsStr(x) == x[1] = "str"

\* pd.isna(x): NaN and None are missing
IsNa(x) == x[1] \in {"nan", "none"}

\* A return value that may be None: None, or the value returned
NoneResult == <<"none">>
Some(x) == <<"some", x>>

IsSpace(c) == c = " "

RECURSIVE LStrip(_)
LStrip(t) == IF t # <<>> /\ IsSpace(Head(t)) THEN LStrip(Tail(t)) ELSE t

RECURSIVE RStrip(_)
RStrip(t) ==
    IF t # <<>> /\ IsSpace(t[Len(t)]) THEN RStrip(SubSeq(t, 1, Len(t) - 1)) ELSE t

\* str.strip()
Strip(t) == RStrip(LStrip(t))

LowerChar(c) ==
    CASE c = "U" -> "u" [] c = "N" -> "n" [] c = "A" -> "a" [] c = "M" -> "m"
      [] c = "E" -> "e" [] c = "D" -> "d" [] c = "I" -> "i" [] c = "T" -> "t"
      [] OTHER -> c

\* str.lower()
Lower(t) == [i \in 1..Len(t) |-> LowerChar(t[i])]

\* str.startswith(prefix)
StartsWith(t, prefix) ==
    Len(t) >= Len(prefix) /\ SubSeq(t, 1, Len(prefix)) = prefix

\* --- Constants ---
min_named_cols == 3

(***************************************************************************)
(* detect_header_row(df, min_named)                                        *)
(***************************************************************************)
text_count_unstripped(row) ==
    Cardinality({j \in 1..Len(row) : IsStr(row[j]) /\ row[j][2] # <<>>})

\* sum(1 for cell in row if isinstance(cell, str) and cell.strip())
text_count(row) ==
    Cardinality({j \in 1..Len(row) : IsStr(row[j]) /\ Strip(row[j][2]) # <<>>})

RECURSIVE detect_from(_, _, _)
detect_from(df, min_named, i) ==
    IF i > Len(df) THEN NoneResult
    ELSE IF text_count(df[i]) >= min_named THEN Some(i - 1)
    ELSE detect_from(df, min_named, i + 1)

\* returns a 0-based row index, or None
detect_header_row(df, min_named) == detect_from(df, min_named, 1)

(***************************************************************************)
(* rename_unnamed_columns(columns)                                         *)
(***************************************************************************)
UnnamedPrefix == <<"u", "n", "n", "a", "m", "e", "d", ":">>
Unnamed == <<"U", "n", "n", "a", "m", "e", "d">>
TextSuffix == <<" ", "(", "T", "e", "x", "t", ")">>

\* isinstance(col, str) and col.strip().lower().startswith("unnamed:")
is_placeholder(col) ==
    IsStr(col) /\ StartsWith(Lower(Strip(col[2])), UnnamedPrefix)

RECURSIVE rename_from_chained(_, _, _, _)
rename_from_chained(columns, i, prev, new_cols) ==
    IF i > Len(columns) THEN new_cols
    ELSE LET col == IF is_placeholder(columns[i])
                    THEN Str(prev[2] \o TextSuffix) ELSE columns[i]
         IN  rename_from_chained(columns, i + 1, col, Append(new_cols, col))

RECURSIVE rename_from(_, _, _, _)
rename_from(columns, i, prev, new_cols) ==
    IF i > Len(columns) THEN new_cols
    ELSE IF is_placeholder(columns[i])
         THEN rename_from(columns, i + 1, prev,
                          Append(new_cols, Str(prev[2] \o TextSuffix)))
         ELSE rename_from(columns, i + 1, columns[i],
                          Append(new_cols, columns[i]))

rename_unnamed_columns(columns) == rename_from(columns, 1, Str(Unnamed), <<>>)

(***************************************************************************)
(* DataFrames.                                                             *)
(***************************************************************************)
\* position of label c in df.columns (labels of a frame are distinct)
ColIndex(df, c) == CHOOSE j \in 1..Len(df.cols) : df.cols[j] = c

\* df[c]: the values of column c, in row order
Column(df, c) == [i \in 1..Len(df.rows) |-> df.rows[i][ColIndex(df, c)]]

\* the dtype pandas infers for a column read from a sheet
dtype(values) ==
    IF values = <<>> THEN "object"
    ELSE IF \A i \in 1..Len(values) : values[i][1] = "int" THEN "int64"
    ELSE IF \A i \in 1..Len(values) : values[i][1] \in {"int", "nan"} THEN "float64"
    ELSE "object"

\* df[c].isnull().all()
all_null(values) == \A i \in 1..Len(values) : IsNa(values[i])

\* pd.api.types.is_float_dtype(df[c])
is_float_dtype(values) == dtype(values) = "float64"

\* str(v) of one value of a column of the given dtype: a number held in a
\* float64 column prints with ".0"
str_of(v, dt) ==
    IF v[1] = "int" /\ dt = "float64" THEN Str(v[2] \o <<".", "0">>)
    ELSE Str(v[2])

\* df[c].astype(str)
astype_str(values) == [i \in 1..Len(values) |-> str_of(values[i], dtype(values))]

\* Series.is_unique: no value occurs twice (NaN equals NaN here)
is_unique(values) == Cardinality(Range(values)) = Len(values)

(***************************************************************************)
(* find_unique_key(df, max_columns)                                        *)
(***************************************************************************)
max_columns_default == 3

\* itertools.combinations(1..n, r) from position start on, in its order
RECURSIVE combinations_from(_, _, _)
combinations_from(start, n, r) ==
    IF r = 0 THEN << <<>> >>
    ELSE IF start > n THEN <<>>
    ELSE LET with == combinations_from(start + 1, n, r - 1)
         IN  [k \in 1..Len(with) |-> <<start>> \o with[k]]
             \o combinations_from(start + 1, n, r)

combinations(cols, r) ==
    LET idx == combinations_from(1, Len(cols), r)
    IN  [k \in 1..Len(idx) |-> [j \in 1..r |-> cols[idx[k][j]]]]

\* [c for c in df.columns if not df[c].isnull().all()
\*                        and not is_float_dtype(df[c])]
candidate(df, c) ==
    ~all_null(Column(df, c)) /\ ~is_float_dtype(Column(df, c))

\* df[list(combo)].astype(str).drop_duplicates().shape[0] == df.shape[0]
combo_unique(df, combo) ==
    LET as_str == [j \in 1..Len(combo) |-> astype_str(Column(df, combo[j]))]
    IN  Cardinality({[j \in 1..Len(combo) |-> as_str[j][i]] :
                        i \in 1..Len(df.rows)}) = Len(df.rows)

RECURSIVE first_unique_column(_, _, _)
first_unique_column(df, cols, i) ==
    IF i > Len(cols) THEN NoneResult
    ELSE IF is_unique(Column(df, cols[i])) THEN Some(<<cols[i]>>)
    ELSE first_unique_column(df, cols, i + 1)

RECURSIVE first_unique_combo(_, _, _)
first_unique_combo(df, combos, k) ==
    IF k > Len(combos) THEN NoneResult
    ELSE IF combo_unique(df, combos[k]) THEN Some(combos[k])
    ELSE first_unique_combo(df, combos, k + 1)

\* the same search with range(2, max_columns)
RECURSIVE combo_search_exclusive(_, _, _, _)
combo_search_exclusive(df, cols, r, max_columns) ==
    IF r >= max_columns THEN NoneResult
    ELSE LET found == first_unique_combo(df, combinations(cols, r), 1)
         IN  IF found # NoneResult THEN found
             ELSE combo_search_exclusive(df, cols, r + 1, max_columns)

RECURSIVE combo_search(_, _, _, _)
combo_search(df, cols, r, max_columns) ==
    IF r > max_columns THEN NoneResult
    ELSE LET found == first_unique_combo(df, combinations(cols, r), 1)
         IN  IF found # NoneResult THEN found
             ELSE combo_search(df, cols, r + 1, max_columns)

find_unique_key(df, max_columns) ==
    LET cols == SelectSeq(df.cols, LAMBDA c : candidate(df, c))
        single == first_unique_column(df, cols, 1)
    IN  IF single # NoneResult THEN single
        ELSE combo_search(df, cols, 2, max_columns)

(***************************************************************************)
(* load_excel_clean(filename)                                              *)
(***************************************************************************)
PreviewRows == 20

Digits == <<"0", "1", "2", "3", "4", "5", "6", "7", "8", "9">>

\* str(n) for a column position n < 10
DigitText(n) == <<Digits[n + 1]>>

UnnamedColon == <<"U", "n", "n", "a", "m", "e", "d", ":", " ">>

\* pd.read_excel(..., header=None, nrows=20)
read_preview(sheet) ==
    SubSeq(sheet, 1, IF Len(sheet) < PreviewRows THEN Len(sheet) ELSE PreviewRows)

\* the label pandas gives column j (0-based) from its header cell: an empty
\* header cell becomes "Unnamed: j", a number stays a number
header_label(cell, j) ==
    IF IsNa(cell) THEN Str(UnnamedColon \o DigitText(j)) ELSE cell

\* pd.read_excel(..., header=header_row, nrows=max_lines) with max_lines = None:
\* header=None labels the columns 0, 1, ... and keeps every row as data
read_excel(sheet, header_row) ==
    IF sheet = <<>> THEN [cols |-> <<>>, rows |-> <<>>]
    ELSE IF header_row = NoneResult
    THEN [cols |-> [j \in 1..Len(sheet[1]) |-> Num(DigitText(j - 1))],
          rows |-> sheet]
    ELSE [cols |-> [j \in 1..Len(sheet[1]) |->
                        header_label(sheet[header_row[2] + 1][j], j - 1)],
          rows |-> SubSeq(sheet, header_row[2] + 2, Len(sheet))]

load_excel_clean(sheet) ==
    LET header_row == detect_header_row(read_preview(sheet), min_named_cols)
        df == read_excel(sheet, header_row)
    IN  [df EXCEPT !.cols = rename_unnamed_columns(df.cols)]

(***************************************************************************)
(* Key validation, key normalisation, merge and result collection.         *)
(***************************************************************************)
BaseSuffix == <<"_", "b", "a", "s", "e">>
CompareSuffix == <<"_", "c", "o", "m", "p", "a", "r", "e">>
MergeCol == Str(<<"_", "m", "e", "r", "g", "e">>)
Both == Str(<<"b", "o", "t", "h">>)
LeftOnly == Str(<<"l", "e", "f", "t", "_", "o", "n", "l", "y">>)
RightOnly == Str(<<"r", "i", "g", "h", "t", "_", "o", "n", "l", "y">>)
KeySeparator == <<" ", "|", " ">>

Indices(n) == [i \in 1..n |-> i]

RECURSIVE Flatten(_)
Flatten(ss) == IF ss = <<>> THEN <<>> ELSE Head(ss) \o Flatten(Tail(ss))

\* sep.join(parts)
RECURSIVE Join(_, _)
Join(parts, sep) ==
    IF parts = <<>> THEN <<>>
    ELSE IF Len(parts) = 1 THEN parts[1]
    ELSE parts[1] \o sep \o Join(Tail(parts), sep)

\* [k for k in user_keys if k not in df.columns]
missing_keys(keys, df) == SelectSeq(keys, LAMBDA k : k \notin Range(df.cols))

\* for col in key_columns: df[col] = df[col].astype(str)
with_str_keys(df, keys) ==
    [df EXCEPT !.rows =
        [i \in 1..Len(df.rows) |->
            [j \in 1..Len(df.cols) |->
                IF df.cols[j] \in Range(keys)
                THEN astype_str(Column(df, df.cols[j]))[i]
                ELSE df.rows[i][j]]]]

\* the values of row i of df in the given columns
Project(df, i, cols) == [j \in 1..Len(cols) |-> df.rows[i][ColIndex(df, cols[j])]]

\* pd.merge(left, right, how="inner", ...): the matched rows only
merge_inner(left, right, on) ==
    LET lrest == SelectSeq(left.cols, LAMBDA c : c \notin Range(on))
        rrest == SelectSeq(right.cols, LAMBDA c : c \notin Range(on))
        lname(c) == IF c \in Range(rrest) THEN Str(c[2] \o BaseSuffix) ELSE c
        rname(c) == IF c \in Range(lrest) THEN Str(c[2] \o CompareSuffix) ELSE c
        matches(i) == SelectSeq(Indices(Len(right.rows)),
                          LAMBDA j : Project(right, j, on) = Project(left, i, on))
        lrows(i) == [n \in 1..Len(matches(i)) |->
                        Project(left, i, on) \o Project(left, i, lrest)
                        \o Project(right, matches(i)[n], rrest) \o <<Both>>]
    IN  [cols |-> on \o [j \in 1..Len(lrest) |-> lname(lrest[j])]
                 \o [j \in 1..Len(rrest) |-> rname(rrest[j])] \o <<MergeCol>>,
         rows |-> Flatten([i \in 1..Len(left.rows) |-> lrows(i)])]

\* pd.merge(left, right, how="outer", on=on, suffixes=('_base', '_compare'),
\*          indicator=True).  A non-key column gets its suffix only when the
\* other frame has a non-key column of the same name.  Rows are listed left
\* rows first, then the unmatched right rows; pandas orders them by key, and
\* nothing below depends on the order.
merge(left, right, on) ==
    LET lrest == SelectSeq(left.cols, LAMBDA c : c \notin Range(on))
        rrest == SelectSeq(right.cols, LAMBDA c : c \notin Range(on))
        lname(c) == IF c \in Range(rrest) THEN Str(c[2] \o BaseSuffix) ELSE c
        rname(c) == IF c \in Range(lrest) THEN Str(c[2] \o CompareSuffix) ELSE c
        lnan == [j \in 1..Len(lrest) |-> NaN]
        rnan == [j \in 1..Len(rrest) |-> NaN]
        matches(i) == SelectSeq(Indices(Len(right.rows)),
                          LAMBDA j : Project(right, j, on) = Project(left, i, on))
        lrows(i) ==
            IF matches(i) = <<>>
            THEN <<Project(left, i, on) \o Project(left, i, lrest) \o rnan
                   \o <<LeftOnly>>>>
            ELSE [n \in 1..Len(matches(i)) |->
                     Project(left, i, on) \o Project(left, i, lrest)
                     \o Project(right, matches(i)[n], rrest) \o <<Both>>]
        unmatched == SelectSeq(Indices(Len(right.rows)),
                         LAMBDA j : \A i \in 1..Len(left.rows) :
                             Project(left, i, on) # Project(right, j, on))
    IN  [cols |-> on \o [j \in 1..Len(lrest) |-> lname(lrest[j])]
                 \o [j \in 1..Len(rrest) |-> rname(rrest[j])] \o <<MergeCol>>,
         rows |-> Flatten([i \in 1..Len(left.rows) |-> lrows(i)])
                  \o [n \in 1..Len(unmatched) |->
                         Project(right, unmatched[n], on) \o lnan
                         \o Project(right, unmatched[n], rrest) \o <<RightOnly>>]]

\* merged[merged['_merge'] == indicator]
rows_with(m, indicator) ==
    SelectSeq(m.rows, LAMBDA row : row[ColIndex(m, MergeCol)] = indicator)

\* row.get(name): the value, or None when the row has no such column
row_get(m, row, name) ==
    IF name \in Range(m.cols) THEN row[ColIndex(m, name)] ELSE None

\* col in key_columns or f"{col}_compare" not in merged.columns
skipped_column(m, col, keys) ==
    col \in Range(keys) \/ Str(col[2] \o CompareSuffix) \notin Range(m.cols)

\* the differences of one matched row, one entry per differing column; an
\* entry f"{col}: {val_a} / {val_b}" is kept as its parts <<col, val_a, val_b>>
RECURSIVE differences_from(_, _, _, _, _)
differences_from(base_cols, i, m, row, keys) ==
    IF i > Len(base_cols) THEN <<>>
    ELSE LET col == base_cols[i]
             val_a == row_get(m, row, Str(col[2] \o BaseSuffix))
             val_b == row_get(m, row, Str(col[2] \o CompareSuffix))
             rest == differences_from(base_cols, i + 1, m, row, keys)
         IN  IF skipped_column(m, col, keys) THEN rest
             ELSE IF IsNa(val_a) /\ IsNa(val_b) THEN rest
             ELSE IF val_a # val_b THEN <<<<col, val_a, val_b>>>> \o rest
             ELSE rest

\* " | ".join(str(row[k]) for k in key_columns)
key_repr(m, row, keys) ==
    Join([j \in 1..Len(keys) |-> row[ColIndex(m, keys[j])][2]], KeySeparator)

\* if differences:
reported(differences) == differences # <<>>

\* the loop over the matched rows: one {"Key", "Differences"} entry per
\* reported row
collect_diff_rows(base, m, keys) ==
    LET both == rows_with(m, Both)
        diffs == [n \in 1..Len(both) |->
                     differences_from(base.cols, 1, m, both[n], keys)]
        kept == SelectSeq(Indices(Len(both)), LAMBDA n : reported(diffs[n]))
    IN  [n \in 1..Len(kept) |->
            [Key |-> key_repr(m, both[kept[n]], keys),
             Differences |-> diffs[kept[n]]]]

\* the loops over the left_only and the right_only rows
collect_only(m, keys, indicator) ==
    LET rows == rows_with(m, indicator)
    IN  [n \in 1..Len(rows) |-> key_repr(m, rows[n], keys)]

(***************************************************************************)
(* The run: load both files, settle the key, normalise it, merge, collect. *)
(***************************************************************************)
Unset == <<"unset">>
NoFrame == [cols |-> <<>>, rows |-> <<>>]
NoError == [type |-> "none", message |-> "", columns |-> <<>>]

MissingInBase == "The following key columns are missing in the base file"
MissingInCompare == "The following key columns are missing in the compare file"
NoUniqueKey == "No unique key columns found in base file."

\* df_base = load_excel_clean(base_file)
LoadBase ==
    /\ pc = "load_base"
    /\ header_rows' = [header_rows EXCEPT
                          !.base = detect_header_row(read_preview(files.base),
                                                     min_named_cols)]
    /\ df_base' = load_excel_clean(files.base)
    /\ pc' = "load_compare"
    /\ UNCHANGED <<args, ret, files, user_keys, df_compare, key_columns, merged,
                   diff_rows, only_in_base, only_in_compare, error>>

\* df_compare = load_excel_clean(compare_file)
LoadCompare ==
    /\ pc = "load_compare"
    /\ header_rows' = [header_rows EXCEPT
                          !.compare = detect_header_row(read_preview(files.compare),
                                                        min_named_cols)]
    /\ df_compare' = load_excel_clean(files.compare)
    /\ pc' = "validate_keys"
    /\ UNCHANGED <<args, ret, files, user_keys, df_base, key_columns, merged,
                   diff_rows, only_in_base, only_in_compare, error>>

\* if user_keys: the base file is checked first and its failure ends the run
ValidateUserKeys ==
    /\ pc = "validate_keys"
    /\ user_keys # <<>>
    /\ LET missing_base == missing_keys(user_keys, df_base)
           missing_compare == missing_keys(user_keys, df_compare)
       IN  IF missing_base # <<>>
           THEN /\ error' = [type |-> "Exception", message |-> MissingInBase,
                             columns |-> missing_base]
                /\ pc' = "failed"
                /\ UNCHANGED key_columns
           ELSE IF missing_compare # <<>>
           THEN /\ error' = [type |-> "Exception", message |-> MissingInCompare,
                             columns |-> missing_compare]
                /\ pc' = "failed"
                /\ UNCHANGED key_columns
           ELSE /\ key_columns' = user_keys
                /\ pc' = "normalize_keys"
                /\ UNCHANGED error
    /\ UNCHANGED <<args, ret, files, user_keys, header_rows, df_base, df_compare,
                   merged, diff_rows, only_in_base, only_in_compare>>

\* else: key_columns = find_unique_key(df_base); None is kept as the empty
\* list; ", ".join(key_columns) raises TypeError on a label that is no str
DiscoverKey ==
    /\ pc = "validate_keys"
    /\ user_keys = <<>>
    /\ LET found == find_unique_key(df_base, max_columns_default)
       IN  IF found = NoneResult
           THEN /\ error' = [type |-> "Exception", message |-> NoUniqueKey,
                             columns |-> <<>>]
                /\ pc' = "failed"
                /\ UNCHANGED key_columns
           ELSE IF \E k \in Range(found[2]) : ~IsStr(k)
           THEN /\ key_columns' = found[2]
                /\ error' = [type |-> "TypeError",
                             message |-> "sequence item: expected str instance",
                             columns |-> <<>>]
                /\ pc' = "failed"
           ELSE /\ key_columns' = found[2]
                /\ pc' = "normalize_keys"
                /\ UNCHANGED error
    /\ UNCHANGED <<args, ret, files, user_keys, header_rows, df_base, df_compare,
                   merged, diff_rows, only_in_base, only_in_compare>>

\* for df in (df_base, df_compare): for col in key_columns:
\*     df[col] = df[col].astype(str)
\* df_compare[col] raises KeyError for a key column it does not have
NormalizeKeys ==
    /\ pc = "normalize_keys"
    /\ df_base' = with_str_keys(df_base, key_columns)
    /\ LET missing == missing_keys(key_columns, df_compare)
       IN  IF missing # <<>>
           THEN /\ error' = [type |-> "KeyError", message |-> "",
                             columns |-> <<missing[1]>>]
                /\ pc' = "failed"
                /\ UNCHANGED df_compare
           ELSE /\ df_compare' = with_str_keys(df_compare, key_columns)
                /\ pc' = "merge"
                /\ UNCHANGED error
    /\ UNCHANGED <<args, ret, files, user_keys, header_rows, key_columns, merged,
                   diff_rows, only_in_base, only_in_compare>>

\* merged = pd.merge(df_base, df_compare, how="outer", on=key_columns, ...)
Merge ==
    /\ pc = "merge"
    /\ merged' = merge(df_base, df_compare, key_columns)
    /\ pc' = "collect"
    /\ UNCHANGED <<args, ret, files, user_keys, header_rows, df_base, df_compare,
                   key_columns, diff_rows, only_in_base, only_in_compare, error>>

\* the three loops over merged; printing the three lists and the optional
\* export (lines 204-223) change none of them and end the run
Collect ==
    /\ pc = "collect"
    /\ diff_rows' = collect_diff_rows(df_base, merged, key_columns)
    /\ only_in_base' = collect_only(merged, key_columns, LeftOnly)
    /\ only_in_compare' = collect_only(merged, key_columns, RightOnly)
    /\ pc' = "done"
    /\ UNCHANGED <<args, ret, files, user_keys, header_rows, df_base, df_compare,
                   key_columns, merged, error>>

(***************************************************************************)
(* Idle values of the variables a specification does not use.              *)
(***************************************************************************)
IdlePipeline ==
    /\ files = <<>> /\ user_keys = <<>> /\ header_rows = <<>>
    /\ df_base = <<>> /\ df_compare = <<>> /\ key_columns = <<>>
    /\ merged = <<>> /\ diff_rows = <<>> /\ only_in_base = <<>>
    /\ only_in_compare = <<>> /\ error = <<>>

(***************************************************************************)
(* SpecHeader: detect_header_row applied to every small preview grid.      *)
(***************************************************************************)
PreviewCells == {Str(<<"a">>), Str(<<" ">>), Num(<<"1">>), NaN}
PreviewRowShapes == [1..2 -> PreviewCells]
Previews == SeqsUpTo(PreviewRowShapes, MaxPreviewRows)

InitHeader ==
    /\ pc = "call"
    /\ \E df \in Previews, mn \in 1..min_named_cols :
          args = [df |-> df, min_named |-> mn]
    /\ ret = NoneResult
    /\ IdlePipeline

CallDetectHeaderRow ==
    /\ pc = "call"
    /\ ret' = detect_header_row(args.df, args.min_named)
    /\ pc' = "returned"
    /\ UNCHANGED <<args, pipeline_vars>>

NextHeader == CallDetectHeaderRow

SpecHeader == InitHeader /\ [][NextHeader]_vars

\* a cell that is text with at least one non-whitespace character
NamedCell(cell) == IsStr(cell) /\ \E c \in Range(cell[2]) : ~IsSpace(c)

NamedCount(row) == Cardinality({j \in 1..Len(row) : NamedCell(row[j])})

\* the 0-based indices of the rows with at least min_named named cells
HeaderLike(df, min_named) ==
    {i \in 0..(Len(df) - 1) : NamedCount(df[i + 1]) >= min_named}

\* C8: detect_header_row returns the smallest 0-based index of a row with at
\* least min_named cells that are text and non-empty after trimming, and None
\* exactly when no row has that many; numeric, missing and whitespace-only
\* cells do not count.
C8_FirstHeaderLikeRow ==
    pc = "returned" =>
        LET q == HeaderLike(args.df, args.min_named)
        IN  /\ (q = {}) <=> (ret = NoneResult)
            /\ q # {} => /\ ret = Some(CHOOSE i \in q : \A j \in q : i <= j)

\* a header found at index 2 below a whitespace-only row and a numeric row
C8_Witness ==
    /\ pc = "returned"
    /\ ret = Some(2)
    /\ args.min_named = 2
    /\ args.df[1] = <<Str(<<" ">>), Str(<<"a">>)>>
    /\ args.df[2] = <<Num(<<"1">>), NaN>>

(***************************************************************************)
(* SpecRename: rename_unnamed_columns applied once, then to its own output.*)
(***************************************************************************)
nID == Str(<<"I", "D">>)
nAmount == Str(<<"A", "m", "t">>)
nUnnamed1 == Str(<<"U", "n", "n", "a", "m", "e", "d", ":", " ", "1">>)
nUnnamed2 == Str(<<"U", "n", "n", "a", "m", "e", "d", ":", " ", "2">>)
nSpacedUnnamed == Str(<<" ", "U", "N", "N", "A", "M", "E", "D", ":", "3">>)
nIDText == Str(<<"I", "D", " ", "(", "T", "e", "x", "t", ")">>)
nFive == Num(<<"5">>)

RawNames == {nID, nAmount, nUnnamed1, nUnnamed2, nSpacedUnnamed, nIDText, nFive}

InitRename ==
    /\ pc = "call"
    /\ \E columns \in SeqsUpTo(RawNames, MaxCols) : args = [columns |-> columns]
    /\ ret = NoneResult
    /\ IdlePipeline

CallRename ==
    /\ pc = "call"
    /\ ret' = rename_unnamed_columns(args.columns)
    /\ pc' = "returned"
    /\ UNCHANGED <<args, pipeline_vars>>

\* df.columns = rename_unnamed_columns(df.columns), on the already clean table
CallRenameAgain ==
    /\ pc = "returned"
    /\ args' = [columns |-> ret]
    /\ ret' = rename_unnamed_columns(ret)
    /\ pc' = "returned_again"
    /\ UNCHANGED pipeline_vars

NextRename == CallRename \/ CallRenameAgain

SpecRename == InitRename /\ [][NextRename]_vars

\* positions before i that hold a real (non-placeholder) name
RealBefore(columns, i) == {j \in 1..(i - 1) : ~is_placeholder(columns[j])}

\* text of the nearest real name before position i, "Unnamed" if there is none
LastRealName(columns, i) ==
    IF RealBefore(columns, i) = {} THEN Unnamed
    ELSE columns[CHOOSE j \in RealBefore(columns, i) :
                     \A k \in RealBefore(columns, i) : k <= j][2]

\* C9: rename_unnamed_columns keeps the length and every non-placeholder name,
\* replaces every placeholder by "<nearest preceding real name> (Text)"
\* ("Unnamed (Text)" when no real name precedes it), and changes nothing when
\* applied to its own output.
C9_RenameRule ==
    /\ pc = "returned" =>
          /\ Len(ret) = Len(args.columns)
          /\ \A i \in 1..Len(args.columns) :
                ret[i] = IF is_placeholder(args.columns[i])
                         THEN Str(LastRealName(args.columns, i) \o TextSuffix)
                         ELSE args.columns[i]
    /\ pc = "returned_again" => ret = args.columns

\* a leading placeholder, and two placeholders in a row after a real name,
\* renamed and then renamed again
C9_Witness ==
    /\ pc = "returned_again"
    /\ args.columns = <<Str(Unnamed \o TextSuffix), nID, nIDText>>
    /\ ret = args.columns

NoDuplicates(s) == \A i, j \in 1..Len(s) : s[i] = s[j] => i = j

\* C10: raw column names that are pairwise distinct are still pairwise distinct
\* after rename_unnamed_columns.
C10_DistinctAfterRename ==
    (pc = "returned" /\ NoDuplicates(args.columns)) => NoDuplicates(ret)

(***************************************************************************)
(* SpecKey: find_unique_key applied to every small table.                  *)
(***************************************************************************)
cA == Str(<<"a">>)
cB == Str(<<"b">>)
cC == Str(<<"c">>)

One == Num(<<"1">>)
Two == Num(<<"2">>)
OneText == Str(<<"1">>)

\* three whole-number columns: enough rows need a key of two or three columns
WideRowShapes == {<<a, b, c>> : a \in {One, Two}, b \in {One, Two}, c \in {One, Two}}

\* two columns mixing numbers, text and missing cells
MixedRowShapes == {<<a, b>> : a \in {One, OneText, NaN}, b \in {One, Two}}

KeyTables ==
    {[cols |-> <<cA, cB, cC>>, rows |-> rows] :
        rows \in SeqsUpTo(WideRowShapes, MaxKeyRows)}
    \cup {[cols |-> <<cA, cB>>, rows |-> rows] :
        rows \in SeqsUpTo(MixedRowShapes, MaxKeyRows)}

InitKey ==
    /\ pc = "call"
    /\ \E df \in KeyTables, mc \in 1..max_columns_default :
          args = [df |-> df, max_columns |-> mc]
    /\ ret = NoneResult
    /\ IdlePipeline

CallFindUniqueKey ==
    /\ pc = "call"
    /\ ret' = find_unique_key(args.df, args.max_columns)
    /\ pc' = "returned"
    /\ UNCHANGED <<args, pipeline_vars>>

NextKey == CallFindUniqueKey

SpecKey == InitKey /\ [][NextKey]_vars

\* positions of the candidate columns: not entirely missing, not float-typed
CandidatePos(df) ==
    {p \in 1..Len(df.cols) :
        /\ \E i \in 1..Len(df.rows) : ~IsNa(df.rows[i][p])
        /\ dtype(Column(df, df.cols[p])) # "float64"}

\* the text of row i in column position p, as astype(str) gives it
CellText(df, i, p) == str_of(df.rows[i][p], dtype(Column(df, df.cols[p])))

\* no two rows agree on the native value in column position p
NativeDistinct(df, p) ==
    \A i, j \in 1..Len(df.rows) : i # j => df.rows[i][p] # df.rows[j][p]

\* no two rows agree on the text of every column position in P
TextDistinct(df, P) ==
    \A i, j \in 1..Len(df.rows) :
        i # j => \E p \in P : CellText(df, i, p) # CellText(df, j, p)

\* the columns at the positions P, in table order
RECURSIVE InTableOrder(_, _)
InTableOrder(df, P) ==
    IF P = {} THEN <<>>
    ELSE LET m == CHOOSE p \in P : \A q \in P : p <= q
         IN  <<df.cols[m]>> \o InTableOrder(df, P \ {m})

\* P comes before Q in the search order: smaller first, and among sets of one
\* size the one holding the least position they do not share
SearchedBefore(P, Q) ==
    \/ Cardinality(P) < Cardinality(Q)
    \/ /\ Cardinality(P) = Cardinality(Q)
       /\ P # Q
       /\ LET D == (P \ Q) \cup (Q \ P)
          IN  (CHOOSE m \in D : \A q \in D : m <= q) \in P

\* the candidate sets that qualify as a key for the search
Qualifying(df, max_columns) ==
    {P \in SUBSET CandidatePos(df) :
        \/ Cardinality(P) = 1 /\ \A p \in P : NativeDistinct(df, p)
        \/ /\ Cardinality(P) >= 2
           /\ Cardinality(P) <= max_columns
           /\ TextDistinct(df, P)}

\* C1: a key returned by find_unique_key tells the rows apart: no two rows have
\* the same projection onto the returned columns, neither as native values
\* nor as text.
C1_ReturnedKeyIsUnique ==
    (pc = "returned" /\ ret # NoneResult) =>
        LET P == {p \in 1..Len(args.df.cols) : args.df.cols[p] \in Range(ret[2])}
        IN  /\ TextDistinct(args.df, P)
            /\ \A i, j \in 1..Len(args.df.rows) :
                  i # j => \E p \in P : args.df.rows[i][p] # args.df.rows[j][p]

\* C2: find_unique_key returns the first qualifying candidate set of the search
\* order (single columns in table order, then combinations of 2..max_columns
\* columns in lexicographic order), and None exactly when none qualifies.
C2_FirstInSearchOrder ==
    pc = "returned" =>
        LET Q == Qualifying(args.df, args.max_columns)
        IN  /\ (Q = {}) <=> (ret = NoneResult)
            /\ Q # {} =>
                  ret = Some(InTableOrder(args.df,
                                CHOOSE P \in Q :
                                    \A R \in Q \ {P} : SearchedBefore(P, R)))

\* a table in which no column and no pair of columns is a key, but all three are
C2_Witness ==
    /\ pc = "returned"
    /\ args.max_columns = max_columns_default
    /\ ret = Some(<<cA, cB, cC>>)

(***************************************************************************)
(* Spec: a whole run on two small sheets.                                  *)
(***************************************************************************)
tK == <<"k">>
tAmt == <<"a", "m", "t">>
tV == <<"v">>
tW == <<"w">>

BannerRow == <<Str(<<"R", "e", "p", "o", "r", "t">>), NaN, NaN, NaN>>
FullHeader == <<Str(tK), Str(tAmt), Str(tV), Str(tW)>>
GapHeader == <<Str(tK), Str(tAmt), Str(tV), NaN>>

SheetRowShapes == {<<k, a, One, NaN>> : k \in {One, Two}, a \in {One, Two}}

Sheets ==
    {banner \o header \o data :
        banner \in {<<>>, <<BannerRow>>},
        header \in {<<>>, <<FullHeader>>, <<GapHeader>>},
        data \in SeqsUpTo(SheetRowShapes, MaxSheetRows)}

Init ==
    /\ pc = "load_base"
    /\ args = <<>> /\ ret = NoneResult
    /\ \E b \in Sheets, c \in Sheets : files = [base |-> b, compare |-> c]
    /\ user_keys \in {<<>>, <<Str(tK)>>}
    /\ header_rows = [base |-> Unset, compare |-> Unset]
    /\ df_base = NoFrame /\ df_compare = NoFrame
    /\ key_columns = <<>>
    /\ merged = NoFrame
    /\ diff_rows = <<>> /\ only_in_base = <<>> /\ only_in_compare = <<>>
    /\ error = NoError

Next ==
    \/ LoadBase
    \/ LoadCompare
    \/ ValidateUserKeys
    \/ DiscoverKey
    \/ NormalizeKeys
    \/ Merge
    \/ Collect

Spec == Init /\ [][Next]_vars

\* C7: a sheet whose header row is not found is not loaded: the run fails
\* there, and no table is built, no key discovered and nothing merged from it.
C7_NoHeaderNoTable ==
    /\ header_rows.base = NoneResult =>
          /\ pc = "failed"
          /\ df_base = NoFrame /\ key_columns = <<>> /\ merged = NoFrame
    /\ header_rows.compare = NoneResult =>
          /\ pc = "failed"
          /\ df_compare = NoFrame /\ merged = NoFrame

(***************************************************************************)
(* SpecRecon: the run from two loaded tables on.                           *)
(***************************************************************************)
cK == Str(tK)
cAmt == Str(tAmt)
cAmtCompare == Str(tAmt \o CompareSuffix)

ReconRowShapes == {<<k, x>> : k \in {One, Two}, x \in {One, Two, NaN}}

ReconColumns == {<<cK, cAmt>>, <<cK, cAmtCompare>>}

ReconUserKeys == {<<>>, <<cK>>, <<cK, cAmt>>}

InitRecon ==
    /\ pc = "validate_keys"
    /\ args = <<>> /\ ret = NoneResult
    /\ files = <<>>
    /\ user_keys \in ReconUserKeys
    /\ header_rows = [base |-> Some(0), compare |-> Some(0)]
    /\ \E bc \in ReconColumns, cc \in ReconColumns,
          br \in SeqsUpTo(ReconRowShapes, MaxTotalRows),
          cr \in SeqsUpTo(ReconRowShapes, MaxTotalRows) :
          /\ Len(br) + Len(cr) <= MaxTotalRows
          /\ df_base = [cols |-> bc, rows |-> br]
          /\ df_compare = [cols |-> cc, rows |-> cr]
    /\ key_columns = <<>>
    /\ merged = NoFrame
    /\ diff_rows = <<>> /\ only_in_base = <<>> /\ only_in_compare = <<>>
    /\ error = NoError

NextRecon ==
    \/ ValidateUserKeys
    \/ DiscoverKey
    \/ NormalizeKeys
    \/ Merge
    \/ Collect

SpecRecon == InitRecon /\ [][NextRecon]_vars

\* the rendered key of row i of a key-normalised table
KeyText(df, i) ==
    Join([j \in 1..Len(key_columns) |-> Project(df, i, key_columns)[j][2]],
         KeySeparator)

KeysOf(df) == {KeyText(df, i) : i \in 1..Len(df.rows)}

KeyIsUniqueIn(df) ==
    \A i, j \in 1..Len(df.rows) : KeyText(df, i) = KeyText(df, j) => i = j

\* the keys reported with differences, and the keys of matched rows that were
\* dropped because no difference was recorded for them
ChangedKeys == {diff_rows[n].Key : n \in 1..Len(diff_rows)}

IdenticalKeys ==
    {key_repr(merged, row, key_columns) :
        row \in {r \in Range(rows_with(merged, Both)) :
                    differences_from(df_base.cols, 1, merged, r, key_columns) = <<>>}}

\* every key of the table is in one of the three classes and the "only" class
\* shares no key with the two matched classes
Classified(df, only) ==
    /\ KeysOf(df) = ChangedKeys \cup IdenticalKeys \cup only
    /\ only \cap (ChangedKeys \cup IdenticalKeys) = {}

\* C3 (as claimed): for every key set, unique or not, each key of either table
\* is in exactly one of Changed, its "only" list, or identical-and-dropped; no
\* key is in both "only" lists; every Changed entry has a difference.
C3_PartitionForAnyKey ==
    pc = "done" =>
        /\ Classified(df_base, Range(only_in_base))
        /\ Classified(df_compare, Range(only_in_compare))
        /\ ChangedKeys \cap IdenticalKeys = {}
        /\ Range(only_in_base) \cap Range(only_in_compare) = {}
        /\ \A n \in 1..Len(diff_rows) : diff_rows[n].Differences # <<>>

\* C3 (amended): the same, except that a key is in only one of Changed and
\* identical-and-dropped when the key set is unique within each table; a key
\* that is duplicated in a table may be in both.
C3_PartitionForUniqueKey ==
    pc = "done" =>
        /\ Classified(df_base, Range(only_in_base))
        /\ Classified(df_compare, Range(only_in_compare))
        /\ (KeyIsUniqueIn(df_base) /\ KeyIsUniqueIn(df_compare)) =>
              ChangedKeys \cap IdenticalKeys = {}
        /\ Range(only_in_base) \cap Range(only_in_compare) = {}
        /\ \A n \in 1..Len(diff_rows) : diff_rows[n].Differences # <<>>

\* a run on a key that is unique in both tables, with a changed key and a
\* base-only key
C3_Witness ==
    /\ pc = "done"
    /\ KeyIsUniqueIn(df_base) /\ KeyIsUniqueIn(df_compare)
    /\ ChangedKeys # {} /\ only_in_base # <<>>

\* the non-key columns that both tables have
CommonColumns ==
    (Range(df_base.cols) \cap Range(df_compare.cols)) \ Range(key_columns)

\* the entries the claim asks for, for base row i and compare row j
ExpectedDifferences(i, j) ==
    {<<c, df_base.rows[i][ColIndex(df_base, c)],
          df_compare.rows[j][ColIndex(df_compare, c)]>> :
        c \in {x \in CommonColumns :
                 LET a == df_base.rows[i][ColIndex(df_base, x)]
                     b == df_compare.rows[j][ColIndex(df_compare, x)]
                 IN  ~(IsNa(a) /\ IsNa(b)) /\ a # b}}

MatchedPairs ==
    {<<i, j>> \in (1..Len(df_base.rows)) \X (1..Len(df_compare.rows)) :
        KeyText(df_base, i) = KeyText(df_compare, j)}

\* C4: for a key present in both tables an entry (column, valueA, valueB) is
\* recorded exactly for the non-key columns that both tables have, whose values
\* are not both missing and not equal, with the base and the compare value of
\* that column; nothing is recorded for a column only one table has.
C4_DifferencesOfCommonColumns ==
    pc = "done" =>
        {<<diff_rows[n].Key, Range(diff_rows[n].Differences)>> :
            n \in 1..Len(diff_rows)}
        = {<<KeyText(df_base, p[1]), ExpectedDifferences(p[1], p[2])>> :
            p \in {q \in MatchedPairs : ExpectedDifferences(q[1], q[2]) # {}}}

\* the result of the same comparison with the two tables swapped
Swapped ==
    LET m == merge(df_compare, df_base, key_columns)
    IN  [diff_rows |-> collect_diff_rows(df_compare, m, key_columns),
         only_in_base |-> collect_only(m, key_columns, LeftOnly),
         only_in_compare |-> collect_only(m, key_columns, RightOnly)]

\* C5: swapping the two tables swaps the two "only" lists and keeps the changed
\* keys, each with the same differing columns and the two values exchanged.
C5_Symmetry ==
    pc = "done" =>
        /\ Range(Swapped.only_in_base) = Range(only_in_compare)
        /\ Range(Swapped.only_in_compare) = Range(only_in_base)
        /\ {<<Swapped.diff_rows[n].Key,
              {<<e[1], e[3], e[2]>> : e \in Range(Swapped.diff_rows[n].Differences)}>> :
               n \in 1..Len(Swapped.diff_rows)}
           = {<<diff_rows[n].Key, Range(diff_rows[n].Differences)>> :
               n \in 1..Len(diff_rows)}

\* the key set in use: the user's, or the one discovered from the base table
KeyInUse == IF user_keys # <<>> THEN user_keys ELSE key_columns

\* the column names the failure lists for each table
ListedForBase == IF error.message = MissingInBase THEN error.columns ELSE <<>>
ListedForCompare == IF error.message = MissingInCompare THEN error.columns ELSE <<>>

\* C6: the join is reached only with every key column in both tables; when a
\* key column is missing the run fails before the join with a failure that
\* lists the missing names for each table they are missing from.
C6_MissingKeysReported ==
    /\ pc \in {"merge", "collect", "done"} =>
          /\ missing_keys(key_columns, df_base) = <<>>
          /\ missing_keys(key_columns, df_compare) = <<>>
    /\ ( /\ pc \notin {"validate_keys", "normalize_keys"}
         /\ \/ missing_keys(KeyInUse, df_base) # <<>>
            \/ missing_keys(KeyInUse, df_compare) # <<>> ) =>
          /\ pc = "failed"
          /\ ListedForBase = missing_keys(KeyInUse, df_base)
          /\ ListedForCompare = missing_keys(KeyInUse, df_compare)
====
